---- MODULE Spec2Model ----
(***************************************************************************)
(* A model of the kuddelmuddel analytics pipeline:                         *)
(*   - handle_inclusion's interval reconstruction loop (src/main.rs),      *)
(*   - fetch_inclusion_events and fetch_disputes_events (src/subscan.rs),  *)
(*   - historical_account_keys (src/subxt.rs) and the final join and CSV   *)
(*     write of handle_disputes (src/main.rs).                             *)
(*   - the normalization of one response page (src/subscan.rs),            *)
(*   - fetch_dispute_initiators (src/subscan.rs),                          *)
(*   - handle_disputes as a whole (src/main.rs).                           *)
(* Each part has its own specification over the shared variables; the      *)
(* variables of the other parts stay at their idle values.                 *)
(***************************************************************************)
EXTENDS Integers, Sequences, FiniteSets, TLC

VARIABLES
    pc,               \* position of the running command
    \* ---- handle_inclusion, the reconstruction loop
    para_id,          \* the target parachain id (also used by the inclusion fetch)
    consumed,         \* the events the `for` loop has taken from `events` so far
    last_backed,      \* Option<u32>
    last_included,    \* Option<u32>
    backing_times,    \* Vec<InclusionPlottingPoint>
    inclusion_times,  \* Vec<InclusionPlottingPoint>
    csv_files,        \* names of the CSV files handle_inclusion has written
    \* ---- fetch_inclusion_events / fetch_disputes_events
    up_to_block,      \* u32
    enough_events,    \* usize
    block_num,        \* the inclusion fetch's block cursor (u32)
    page,             \* the dispute fetch's page index
    events,           \* accumulated Vec<InclusionEvent>
    disputes_initiated,  \* accumulated Vec<events::disputes::Event>
    query_module,     \* Request.module of the running fetch
    requests,         \* the page requests issued so far, in order
    pages,            \* per answered request: the `new_events` it gave
    result,           \* the value the fetch returned (None until it returns)
    \* ---- historical_account_keys and the join of handle_disputes
    initiators,       \* Vec<DisputeInitiated>, the stage-(b) rows
    input_idx,        \* number of (session, block_hash) pairs consumed
    map,              \* BTreeMap<SessionIndex, Vec<AccountId32>>
    lookups,          \* the sessions the external lookup was invoked for, in order
    join_idx,         \* number of rows the lazy join has been asked for
    csv_rows,         \* None until the CSV file exists; then the rows serialized
    \* ---- the normalization of one page of raw inclusion events
    raw_events,       \* the flattened raw events of the response
    normalized,       \* None until the page is normalized; then its `new_events`
    \* ---- fetch_dispute_initiators
    expand_events,    \* its argument `events`
    expand_idx,       \* number of events the `for` loop has finished with
    extrinsic_requests,  \* the extrinsic_index of every request sent, in order
    extrinsic_response,  \* the last response deserialized (None: not yet, or failed)
    skipped,          \* the extrinsics reported as "null response .., skipping"
    \* ---- the sort-then-dedup step of the fetches, on its own
    vec,              \* the vector sorted and deduplicated in place
    passes,           \* number of times the step has been applied to it
    \* ---- which function the run started in
    run               \* "stage": one function alone; "command": handle_disputes

reconVars == <<para_id, consumed, last_backed, last_included, backing_times,
               inclusion_times, csv_files>>
fetchVars == <<up_to_block, enough_events, block_num, page, events,
               disputes_initiated, query_module, requests, pages, result>>
resolverVars == <<initiators, input_idx, map, lookups, join_idx, csv_rows>>
normVars == <<raw_events, normalized>>
expandVars == <<expand_events, expand_idx, extrinsic_requests,
                extrinsic_response, skipped>>
dedupVars == <<vec, passes>>
vars == <<pc, reconVars, fetchVars, resolverVars, normVars, expandVars, run,
          dedupVars>>

----------------------------------------------------------------------------
(* Bounds of the model. *)
MaxEvents == 4
MaxBlock == 1
MaxEnough == 2
MaxPage == 2
MaxRequests == 3
MaxRows == 3
MaxValidatorIndex == 2
(* u32 is modelled with WordBits bits: TLC's integers are 32-bit signed, so *)
(* 2^32 itself is not representable.                                        *)
WordBits == 16

(* Option<T>: None is the empty sequence, Some(x) the one-element sequence. *)
None == <<>>
Some(x) == <<x>>

U32Modulus == 2^WordBits

U32 == 0 .. (U32Modulus - 1)

ParaIds == {1, 2}

----------------------------------------------------------------------------
(* u32 arithmetic *)

WrappingSub(a, b) == (a - b) % U32Modulus

SaturatingSubSwapped(a, b) == IF b >= a THEN b - a ELSE 0

SaturatingSub(a, b) == IF a >= b THEN a - b ELSE 0

----------------------------------------------------------------------------
(* handle_inclusion: the interval reconstruction loop *)

ReconBlocks == {10, 12, 15, 20}

InclusionEvent == [block_num : ReconBlocks, para_id : ParaIds, included : BOOLEAN]

SwappedPoint(bn, blocks) == [block_num |-> blocks, blocks |-> bn]

InclusionPlottingPoint(bn, blocks) == [block_num |-> bn, blocks |-> blocks]

IncludedBranchUnguarded(event) ==
    /\ inclusion_times' = Append(inclusion_times,
           InclusionPlottingPoint(event.block_num,
               SaturatingSub(event.block_num,
                             IF last_backed = None THEN 0 ELSE last_backed[1])))
    /\ last_included' = Some(event.block_num)
    /\ UNCHANGED <<last_backed, backing_times>>

IncludedBranch(event) ==
    /\ IF last_backed # None
          THEN inclusion_times' = Append(inclusion_times,
                   InclusionPlottingPoint(event.block_num,
                       SaturatingSub(event.block_num, last_backed[1])))
          ELSE inclusion_times' = inclusion_times
    /\ last_included' = Some(event.block_num)
    /\ UNCHANGED <<last_backed, backing_times>>

BackedBranchAgainstBacked(event) ==
    /\ IF last_backed # None
          THEN backing_times' = Append(backing_times,
                   InclusionPlottingPoint(event.block_num,
                       SaturatingSub(event.block_num, last_backed[1])))
          ELSE backing_times' = backing_times
    /\ last_backed' = Some(event.block_num)
    /\ UNCHANGED <<last_included, inclusion_times>>

BackedBranch(event) ==
    /\ IF last_included # None
          THEN backing_times' = Append(backing_times,
                   InclusionPlottingPoint(event.block_num,
                       SaturatingSub(event.block_num, last_included[1])))
          ELSE backing_times' = backing_times
    /\ last_backed' = Some(event.block_num)
    /\ UNCHANGED <<last_included, inclusion_times>>

(* One iteration of `for event in events.into_iter().filter(..)`: the next  *)
(* element of `events` is taken; one of another para is skipped.            *)
ReconstructStep ==
    /\ pc = "reconstruct"
    /\ Len(consumed) < MaxEvents
    /\ \E event \in InclusionEvent :
          /\ consumed' = Append(consumed, event)
          /\ IF event.para_id = para_id
                THEN IF event.included
                        THEN IncludedBranch(event)
                        ELSE BackedBranch(event)
                ELSE UNCHANGED <<last_backed, last_included, backing_times,
                                 inclusion_times>>
    /\ UNCHANGED <<pc, para_id, csv_files, fetchVars, resolverVars, normVars,
                   expandVars, run, dedupVars>>

(* `events` is exhausted: one CSV file per non-empty series.                *)
WriteLatencies ==
    /\ pc = "reconstruct"
    /\ csv_files' = {n \in {"backing", "inclusion"} :
                        IF n = "backing" THEN backing_times # <<>>
                                         ELSE inclusion_times # <<>>}
    /\ pc' = "done"
    /\ UNCHANGED <<para_id, consumed, last_backed, last_included, backing_times,
                   inclusion_times, fetchVars, resolverVars, normVars,
                   expandVars, run, dedupVars>>

FetchIdle ==
    /\ up_to_block = 0 /\ enough_events = 0 /\ block_num = 0 /\ page = 0
    /\ events = <<>> /\ disputes_initiated = <<>> /\ requests = <<>>
    /\ query_module = "" /\ pages = <<>> /\ result = None

ResolverIdle ==
    /\ initiators = <<>> /\ input_idx = 0 /\ map = <<>> /\ lookups = <<>>
    /\ join_idx = 0 /\ csv_rows = None

ReconIdle ==
    /\ consumed = <<>> /\ last_backed = None /\ last_included = None
    /\ backing_times = <<>> /\ inclusion_times = <<>> /\ csv_files = {}

NormIdle == raw_events = <<>> /\ normalized = None

DedupIdle == vec = <<>> /\ passes = 0

ExpandIdle ==
    /\ expand_events = <<>> /\ expand_idx = 0 /\ extrinsic_requests = <<>>
    /\ extrinsic_response = None /\ skipped = <<>>

ReconInit ==
    /\ pc = "reconstruct"
    /\ para_id \in ParaIds
    /\ ReconIdle
    /\ FetchIdle
    /\ ResolverIdle
    /\ NormIdle
    /\ ExpandIdle
    /\ run = "stage"
    /\ DedupIdle

ReconNext == ReconstructStep \/ WriteLatencies

SpecReconstruct == ReconInit /\ [][ReconNext]_vars

----------------------------------------------------------------------------
(* The derived total orders *)

(* #[derive(PartialOrd, Ord)] on InclusionEvent: lexicographic on           *)
(* (block_num, para_id, included), false before true.                       *)
InclusionEventLessIncludedFirst(a, b) ==
    \/ a.block_num < b.block_num
    \/ /\ a.block_num = b.block_num
       /\ \/ a.para_id < b.para_id
          \/ /\ a.para_id = b.para_id
             /\ a.included
             /\ ~b.included

InclusionEventLess(a, b) ==
    \/ a.block_num < b.block_num
    \/ /\ a.block_num = b.block_num
       /\ \/ a.para_id < b.para_id
          \/ /\ a.para_id = b.para_id
             /\ ~a.included
             /\ b.included


DisputeEventLess(a, b) ==
    \/ a.block_num < b.block_num
    \/ /\ a.block_num = b.block_num
       /\ a.extrinsic_idx < b.extrinsic_idx

----------------------------------------------------------------------------
(* Vec operations *)

BoundedSeq(S, n) == UNION {[1 .. k -> S] : k \in 0 .. n}

Range(s) == {s[k] : k \in 1 .. Len(s)}

(* The elements of s at the positions I, in their order in s. *)
AtPositions(s, I) ==
    [k \in 1 .. Cardinality(I) |->
        s[CHOOSE i \in I : Cardinality({j \in I : j <= i}) = k]]

Reverse(s) == [k \in 1 .. Len(s) |-> s[Len(s) + 1 - k]]

(* slice::sort on Vec<InclusionEvent>, a stable sort: position i of s goes  *)
(* to the place given by the number of elements below it plus the equal     *)
(* ones not after it.                                                       *)
SortInclusionEvents(s) ==
    LET place(i) ==
            Cardinality({j \in 1 .. Len(s) : InclusionEventLess(s[j], s[i])})
          + Cardinality({j \in 1 .. i : s[j] = s[i]})
    IN  [k \in 1 .. Len(s) |-> s[CHOOSE i \in 1 .. Len(s) : place(i) = k]]

(* slice::sort on Vec<events::disputes::Event>. *)
SortDisputeEvents(s) ==
    LET place(i) ==
            Cardinality({j \in 1 .. Len(s) : DisputeEventLess(s[j], s[i])})
          + Cardinality({j \in 1 .. i : s[j] = s[i]})
    IN  [k \in 1 .. Len(s) |-> s[CHOOSE i \in 1 .. Len(s) : place(i) = k]]

KeepRepeated(s) == s

DedupFromSecond(s) == AtPositions(s, {i \in 2 .. Len(s) : s[i] # s[i - 1]})

(* Vec::dedup: removes consecutive repeated elements. *)
Dedup(s) == AtPositions(s, {i \in 1 .. Len(s) : i = 1 \/ s[i] # s[i - 1]})

----------------------------------------------------------------------------
(* TryFrom<events::inclusion::Event> for InclusionEvent *)

Marker == << "\"", "p", "a", "r", "a", "_", "i", "d", "\"", ":" >>

Digits == << "0", "1", "2", "3", "4", "5", "6", "7", "8", "9" >>

IsDigit(c) == \E d \in 1 .. 10 : Digits[d] = c

DigitValue(c) == (CHOOSE d \in 1 .. 10 : Digits[d] = c) - 1

(* str::find: the 0-based offset of the first occurrence, or None. *)
Find(text, substr) ==
    LET hits == {i \in 0 .. Len(text) - Len(substr) :
                    SubSeq(text, i + 1, i + Len(substr)) = substr}
    IN  IF hits = {} THEN None
        ELSE Some(CHOOSE i \in hits : \A h \in hits : i <= h)

(* u32::from_str on at most 4 characters: an optional '+', then one or more *)
(* decimal digits; anything else is an error.                               *)
FromStrU32(text) ==
    LET digits == IF text # <<>> /\ text[1] = "+" THEN Tail(text) ELSE text
        value[k \in 0 .. Len(digits)] ==
            IF k = 0 THEN 0 ELSE 10 * value[k - 1] + DigitValue(digits[k])
    IN  IF digits = <<>> \/ \E k \in 1 .. Len(digits) : ~IsDigit(digits[k])
           THEN None
           ELSE Some(value[Len(digits)])

(* Ok(event), Err(()) or a panic (the slice params[idx..idx + 4] reaching   *)
(* past the end of params).                                                 *)
TryFromEvent(event) ==
    LET found == Find(event.params, Marker)
        idx == found[1] + Len(Marker)
        parsed == FromStrU32(SubSeq(event.params, idx + 1, idx + 4))
    IN  IF found = None THEN [tag |-> "Err"]
        ELSE IF idx + 4 > Len(event.params) THEN [tag |-> "Panic"]
        ELSE IF parsed = None THEN [tag |-> "Err"]
        ELSE IF event.event_id = "CandidateTimedOut" THEN [tag |-> "Err"]
        ELSE [tag |-> "Ok",
              event |-> [block_num |-> event.block_num,
                         para_id |-> parsed[1],
                         included |-> (event.event_id = "CandidateIncluded")]]

----------------------------------------------------------------------------
(* The indexing API, as the fetch loops see it *)

(* params blobs: the para id as 4 digits after the marker, and malformed    *)
(* ones (no marker, no number, text ending right after the marker).         *)
ParamsFor(p) ==
    << "{" >> \o Marker
       \o << Digits[((p \div 1000) % 10) + 1], Digits[((p \div 100) % 10) + 1],
             Digits[((p \div 10) % 10) + 1], Digits[(p % 10) + 1] >>
       \o << "," >>

ParamsNoMarker == << "{", "}" >>

ParamsNotANumber == Marker \o << "n", "u", "l", "l" >>

ParamsTooShort == Marker \o << "7", "}" >>

(* The raw events a page for block bn may hold. *)
RawEvents(bn) ==
    [block_num : {bn},
     event_id : {"CandidateIncluded", "CandidateBacked"},
     params : {ParamsFor(p) : p \in ParaIds}]
    \cup
    [block_num : {bn},
     event_id : {"CandidateTimedOut"},
     params : {ParamsFor(CHOOSE p \in ParaIds : TRUE)}]
    \cup
    [block_num : {bn},
     event_id : {"CandidateBacked"},
     params : {ParamsNoMarker, ParamsNotANumber, ParamsTooShort}]

(* events::inclusion::Response: data and data.events are both optional. *)
InclusionResponses(bn) ==
    {[data |-> None], [data |-> Some([events |-> None])]}
    \cup {[data |-> Some([events |-> Some(es)])] : es \in BoundedSeq(RawEvents(bn), MaxPage)}

(* response.data.into_iter().flat_map(|d| d.events).flatten() *)
FlattenInclusion(response) ==
    IF response.data = None THEN <<>>
    ELSE IF response.data[1].events = None THEN <<>>
    ELSE response.data[1].events[1]

DisputeEvents == [block_num : 0 .. MaxBlock, extrinsic_idx : 0 .. 1]

(* In the specification of the whole command the provider answers with    *)
(* pages of at most one event; a fetch run on its own gets up to MaxPage.   *)
PageLimit == IF run = "command" THEN 1 ELSE MaxPage

(* events::disputes::Response: data is required, data.events optional. *)
DisputeResponses ==
    {[data |-> [events |-> None]]}
    \cup {[data |-> [events |-> Some(es)]] : es \in BoundedSeq(DisputeEvents, PageLimit)}

(* response.data.events.into_iter().flatten() *)
FlattenDisputes(response) ==
    IF response.data.events = None THEN <<>> ELSE response.data.events[1]

----------------------------------------------------------------------------
(* fetch_inclusion_events and fetch_disputes_events *)

DisputeWindow == 400000

Inclusion == query_module = "parainclusion"

Disputes == query_module = "parasdisputes"

InclusionLoopGuardInclusive == Len(events) <= enough_events

(* while events.len() < enough_events *)
InclusionLoopGuard == Len(events) < enough_events

DisputesLoopGuardInclusive == Len(disputes_initiated) <= enough_events

(* while disputes_initiated.len() < enough_events *)
DisputesLoopGuard == Len(disputes_initiated) < enough_events

NeverBreak(new_events) == FALSE

(* if new_events.is_empty() { break; } *)
BreakOnEmpty(new_events) == new_events = <<>>

InclusionRequest ==
    [module |-> "parainclusion", page |-> 0, call |-> None,
     block_num |-> Some(block_num), block_range |-> None]

DisputesRequestFirstPage ==
    [module |-> "parasdisputes", page |-> 0, call |-> Some("disputeinitiated"),
     block_num |-> None,
     block_range |-> Some(<<SaturatingSub(up_to_block, DisputeWindow), up_to_block>>)]

DisputesRequest ==
    [module |-> "parasdisputes", page |-> page, call |-> Some("disputeinitiated"),
     block_num |-> None,
     block_range |-> Some(<<SaturatingSub(up_to_block, DisputeWindow), up_to_block>>)]

(* The loop condition holds: the next request is sent. *)
InclusionFetchRequest ==
    /\ pc = "loop"
    /\ Inclusion
    /\ InclusionLoopGuard
    /\ Len(requests) < MaxRequests
    /\ requests' = Append(requests, InclusionRequest)
    /\ pc' = "awaiting"
    /\ UNCHANGED <<up_to_block, enough_events, block_num, page, events,
                   disputes_initiated, query_module, pages, result>>
    /\ UNCHANGED <<reconVars, resolverVars, normVars, expandVars, run, dedupVars>>

(* The response arrives: its events are normalized and filtered, the block  *)
(* cursor is decremented, the new events are appended. `block_num -= 1` at  *)
(* 0 panics in a build with overflow checks and wraps in one without.       *)
InclusionFetchResponse ==
    /\ pc = "awaiting"
    /\ Inclusion
    /\ \E response \in InclusionResponses(block_num) :
          LET raw == FlattenInclusion(response)
              tried == [k \in 1 .. Len(raw) |-> TryFromEvent(raw[k])]
              ok == SelectSeq(tried, LAMBDA r : r.tag = "Ok")
              new_events == SelectSeq([k \in 1 .. Len(ok) |-> ok[k].event],
                                      LAMBDA e : e.para_id = para_id)
          IN  IF \E k \in 1 .. Len(tried) : tried[k].tag = "Panic"
                 THEN /\ pc' = "panicked"
                      /\ UNCHANGED <<block_num, events, pages>>
                 ELSE /\ pages' = Append(pages, new_events)
                      /\ \/ /\ block_num > 0
                            /\ block_num' = block_num - 1
                            /\ events' = events \o new_events
                            /\ pc' = "sleeping"
                         \/ /\ block_num = 0
                            /\ block_num' = U32Modulus - 1
                            /\ events' = events \o new_events
                            /\ pc' = "sleeping"
                         \/ /\ block_num = 0
                            /\ pc' = "panicked"
                            /\ UNCHANGED <<block_num, events>>
    /\ UNCHANGED <<up_to_block, enough_events, page, disputes_initiated,
                   query_module, requests, result>>
    /\ UNCHANGED <<reconVars, resolverVars, normVars, expandVars, run, dedupVars>>

(* The loop condition fails: reverse, sort, dedup, return. `events` keeps   *)
(* the accumulated vector, `result` gets the returned one.                  *)
InclusionFetchReturn ==
    /\ pc = "loop"
    /\ Inclusion
    /\ ~InclusionLoopGuard
    /\ result' = Some(Dedup(SortInclusionEvents(Reverse(events))))
    /\ pc' = "done"
    /\ UNCHANGED <<up_to_block, enough_events, block_num, page, events,
                   disputes_initiated, query_module, requests, pages>>
    /\ UNCHANGED <<reconVars, resolverVars, normVars, expandVars, run, dedupVars>>

DisputesFetchRequest ==
    /\ pc = "loop"
    /\ Disputes
    /\ DisputesLoopGuard
    /\ Len(requests) < MaxRequests
    /\ requests' = Append(requests, DisputesRequest)
    /\ pc' = "awaiting"
    /\ UNCHANGED <<up_to_block, enough_events, block_num, page, events,
                   disputes_initiated, query_module, pages, result>>
    /\ UNCHANGED <<reconVars, resolverVars, normVars, expandVars, run, dedupVars>>

(* The response arrives. An empty page breaks out of the loop and the       *)
(* function goes on to sort, dedup and return.                              *)
DisputesFetchResponse ==
    /\ pc = "awaiting"
    /\ Disputes
    /\ \E response \in DisputeResponses :
          LET new_events == FlattenDisputes(response)
          IN  /\ pages' = Append(pages, new_events)
              /\ page' = page + 1
              /\ IF BreakOnEmpty(new_events)
                    THEN /\ result' = Some(Dedup(SortDisputeEvents(disputes_initiated)))
                         /\ pc' = "done"
                         /\ UNCHANGED disputes_initiated
                    ELSE /\ disputes_initiated' = disputes_initiated \o new_events
                         /\ pc' = "sleeping"
                         /\ UNCHANGED result
    /\ UNCHANGED <<up_to_block, enough_events, block_num, events, query_module,
                   requests>>
    /\ UNCHANGED <<reconVars, resolverVars, normVars, expandVars, run, dedupVars>>

DisputesFetchReturn ==
    /\ pc = "loop"
    /\ Disputes
    /\ ~DisputesLoopGuard
    /\ result' = Some(Dedup(SortDisputeEvents(disputes_initiated)))
    /\ pc' = "done"
    /\ UNCHANGED <<up_to_block, enough_events, block_num, page, events,
                   disputes_initiated, query_module, requests, pages>>
    /\ UNCHANGED <<reconVars, resolverVars, normVars, expandVars, run, dedupVars>>

FetchTransportErrorRetry ==
    /\ pc = "awaiting"
    /\ pc' = "loop"
    /\ UNCHANGED <<fetchVars, reconVars, resolverVars, normVars, expandVars, run, dedupVars>>

(* send() or json() fails: `?` returns the error. *)
FetchTransportError ==
    /\ pc = "awaiting"
    /\ pc' = "failed"
    /\ UNCHANGED <<fetchVars, reconVars, resolverVars, normVars, expandVars, run, dedupVars>>

(* sleep(Duration::from_millis(150)).await, then back to the loop head. *)
FetchSleep ==
    /\ pc = "sleeping"
    /\ pc' = "loop"
    /\ UNCHANGED <<fetchVars, reconVars, resolverVars, normVars, expandVars, run, dedupVars>>

FetchInit ==
    /\ pc = "loop"
    /\ query_module \in {"parainclusion", "parasdisputes"}
    /\ up_to_block \in 0 .. MaxBlock
    /\ enough_events \in 0 .. MaxEnough
    /\ para_id \in IF Inclusion THEN ParaIds ELSE {0}
    /\ block_num = IF Inclusion THEN up_to_block ELSE 0
    /\ page = 0
    /\ events = <<>> /\ disputes_initiated = <<>> /\ requests = <<>>
    /\ pages = <<>> /\ result = None
    /\ ReconIdle
    /\ ResolverIdle
    /\ NormIdle
    /\ ExpandIdle
    /\ run = "stage"
    /\ DedupIdle

FetchNext ==
    \/ InclusionFetchRequest
    \/ InclusionFetchResponse
    \/ InclusionFetchReturn
    \/ DisputesFetchRequest
    \/ DisputesFetchResponse
    \/ DisputesFetchReturn
    \/ FetchTransportError
    \/ FetchSleep

SpecFetch == FetchInit /\ [][FetchNext]_vars

(* fetch_disputes_events alone, run to its end: the future is polled until  *)
(* it completes, so a step that can be taken is eventually taken. The      *)
(* function reads up_to_block only to build the block range of its          *)
(* requests; one value of it is explored here.                              *)
DisputesFetchInit == FetchInit /\ Disputes /\ up_to_block = MaxBlock

DisputesFetchNext ==
    \/ DisputesFetchRequest
    \/ DisputesFetchResponse
    \/ DisputesFetchReturn
    \/ FetchTransportError
    \/ FetchSleep

SpecDisputesFetch ==
    DisputesFetchInit /\ [][DisputesFetchNext]_vars /\ WF_vars(DisputesFetchNext)

----------------------------------------------------------------------------
(* events.sort(); events.dedup() of the two fetches, on its own: applied to *)
(* a vector of any order and multiplicity, then to its own output           *)

MaxVec == 3

MaxPasses == 2

(* The normalized events an inclusion fetch may have accumulated. *)
FetchedInclusionEvents ==
    [block_num : 0 .. MaxBlock, para_id : ParaIds, included : BOOLEAN]

SortDedup ==
    /\ pc = "sorting"
    /\ passes < MaxPasses
    /\ vec' = IF Inclusion THEN Dedup(SortInclusionEvents(vec))
                            ELSE Dedup(SortDisputeEvents(vec))
    /\ passes' = passes + 1
    /\ UNCHANGED <<pc, reconVars, fetchVars, resolverVars, normVars, expandVars, run>>

SortDedupInit ==
    /\ pc = "sorting"
    /\ query_module \in {"parainclusion", "parasdisputes"}
    /\ vec \in BoundedSeq(IF Inclusion THEN FetchedInclusionEvents
                                        ELSE DisputeEvents, MaxVec)
    /\ passes = 0
    /\ up_to_block = 0 /\ enough_events = 0 /\ block_num = 0 /\ page = 0
    /\ events = <<>> /\ disputes_initiated = <<>> /\ requests = <<>>
    /\ pages = <<>> /\ result = None
    /\ para_id = 0
    /\ ReconIdle
    /\ ResolverIdle
    /\ NormIdle
    /\ ExpandIdle
    /\ run = "stage"

SortDedupNext == SortDedup

SpecSortDedup == SortDedupInit /\ [][SortDedupNext]_vars

----------------------------------------------------------------------------
(* The normalization of one response page, alone: the iterator chain of     *)
(* fetch_inclusion_events over every params text of a small alphabet        *)

MaxTail == 5

TailChars == {"0", "1", "+", "}"}

(* `{`, then the marker or not, then up to MaxTail characters. *)
NormParams ==
    {<< "{" >> \o m \o t : m \in {<<>>, Marker}, t \in BoundedSeq(TailChars, MaxTail)}

NormRawEvents ==
    [block_num : {3},
     event_id : {"CandidateIncluded", "CandidateBacked", "CandidateTimedOut"},
     params : NormParams]

(* A well-formed record of para 1 sharing the page with the record drawn. *)
Neighbour ==
    [block_num |-> 3, event_id |-> "CandidateIncluded", params |-> ParamsFor(1)]

(* .flat_map(|e| InclusionEvent::try_from(e).ok())                          *)
(* .filter(|e| e.para_id == para_id).collect(): a panic inside try_from     *)
(* unwinds out of the chain and nothing is collected.                       *)
NormalizePage ==
    /\ pc = "normalizing"
    /\ LET tried == [k \in 1 .. Len(raw_events) |-> TryFromEvent(raw_events[k])]
           ok == SelectSeq(tried, LAMBDA r : r.tag = "Ok")
           kept == SelectSeq([k \in 1 .. Len(ok) |-> ok[k].event],
                             LAMBDA e : e.para_id = para_id)
       IN  IF \E k \in 1 .. Len(tried) : tried[k].tag = "Panic"
              THEN /\ pc' = "panicked"
                   /\ UNCHANGED normalized
              ELSE /\ pc' = "collected"
                   /\ normalized' = Some(kept)
    /\ UNCHANGED <<raw_events, reconVars, fetchVars, resolverVars, expandVars, run, dedupVars>>

NormInit ==
    /\ pc = "normalizing"
    /\ para_id \in ParaIds
    /\ \E e \in NormRawEvents :
          raw_events \in {<< e >>, << Neighbour, e >>, << e, Neighbour >>}
    /\ normalized = None
    /\ ReconIdle
    /\ FetchIdle
    /\ ResolverIdle
    /\ ExpandIdle
    /\ run = "stage"
    /\ DedupIdle

NormNext == NormalizePage

SpecNormalize == NormInit /\ [][NormNext]_vars

----------------------------------------------------------------------------
(* fetch_dispute_initiators: one extrinsic request per dispute event, the   *)
(* Invalid votes of the answer expanded into rows                           *)

MaxStatements == 2

Sessions == {5, 6}

(* The keys a DisputeVote.kind map may hold. *)
VoteKinds == {{"Invalid"}, {"Valid"}, {"Invalid", "Valid"}}

DisputeVote == [kind : VoteKinds, validator_index : 0 .. 1]

DisputeVotes ==
    [session : Sessions, statements : BoundedSeq(DisputeVote, MaxStatements)]

(* The votes of a further session, one of them Invalid. *)
FurtherVotes ==
    [session |-> 6,
     statements |-> << [kind |-> {"Invalid"}, validator_index |-> 1] >>]

(* Value.disputes: no session, one session, or one session and a further one. *)
DisputeLists ==
    {<<>>} \cup {<< v >> : v \in DisputeVotes}
           \cup {<< v, FurtherVotes >> : v \in DisputeVotes}

(* Data.params: empty, one entry, or one entry and a further one. *)
ParamsLists ==
    {<<>>} \cup {<< [value |-> [disputes |-> d]] >> : d \in DisputeLists}
           \cup {<< [value |-> [disputes |-> d]],
                    [value |-> [disputes |-> << FurtherVotes >>]] >> : d \in DisputeLists}

(* The params lists of the whole-command specification: empty, or one      *)
(* entry with one session holding one statement of validator 0.             *)
CommandParamsLists ==
    {<<>>} \cup
    {<< [value |-> [disputes |->
            << [session |-> session,
                statements |-> << [kind |-> kind, validator_index |-> 0] >>] >>]] >> :
        session \in Sessions, kind \in {{"Invalid"}, {"Valid"}}}

(* extrinsic::parainherent::Response: data is optional. *)
ExtrinsicResponses ==
    {[data |-> None]}
    \cup {[data |-> Some([params |-> ps])] :
             ps \in IF run = "command" THEN CommandParamsLists ELSE ParamsLists}

(* extrinsic::Request: extrinsic_index is "{block_num}-{extrinsic_idx}". *)
ExtrinsicRequest(event) ==
    [extrinsic_index |-> << event.block_num, "-", event.extrinsic_idx >>]

(* vote.kind.contains_key(&invalid) *)
Qualifies(vote) == "Invalid" \in vote.kind

(* for votes in disputes { for vote in votes.statements { if .. push } } *)
InitiatorsOf(bn, disputes) ==
    LET of_votes(votes) ==
            LET q == SelectSeq(votes.statements, Qualifies)
            IN  [k \in 1 .. Len(q) |->
                    [session_index |-> votes.session, block_num |-> bn,
                     validator_index |-> q[k].validator_index]]
        upto[n \in 0 .. Len(disputes)] ==
            IF n = 0 THEN <<>> ELSE upto[n - 1] \o of_votes(disputes[n])
    IN  upto[Len(disputes)]

SkipExtrinsicFatal ==
    /\ pc' = "failed"
    /\ UNCHANGED <<expand_idx, initiators>>

(* None => { eprintln!(..); continue; } *)
SkipExtrinsic ==
    /\ expand_idx' = expand_idx + 1
    /\ UNCHANGED <<pc, initiators>>

(* One iteration of `for event in events`: the request is sent; send() or   *)
(* json() may fail and `?` returns the error; a null data is reported and   *)
(* skipped; otherwise params.remove(0), which panics on an empty params,    *)
(* gives the disputes whose Invalid votes are pushed.                       *)
ExpandNext ==
    /\ pc = "expanding"
    /\ expand_idx < Len(expand_events)
    /\ LET event == expand_events[expand_idx + 1]
       IN  /\ extrinsic_requests' = Append(extrinsic_requests, ExtrinsicRequest(event))
           /\ \/ /\ pc' = "failed"
                 /\ extrinsic_response' = None
                 /\ UNCHANGED <<expand_idx, initiators, skipped>>
              \/ \E response \in ExtrinsicResponses :
                    /\ extrinsic_response' = Some(response)
                    /\ IF response.data = None
                          THEN /\ skipped' = Append(skipped, ExtrinsicRequest(event))
                               /\ SkipExtrinsic
                          ELSE /\ UNCHANGED skipped
                               /\ IF response.data[1].params = <<>>
                                     THEN /\ pc' = "panicked"
                                          /\ UNCHANGED <<expand_idx, initiators>>
                                     ELSE /\ initiators' = initiators \o
                                                InitiatorsOf(event.block_num,
                                                    response.data[1].params[1].value.disputes)
                                          /\ expand_idx' = expand_idx + 1
                                          /\ UNCHANGED pc
    /\ UNCHANGED <<expand_events, input_idx, map, lookups, join_idx, csv_rows>>
    /\ UNCHANGED <<reconVars, fetchVars, normVars, run, dedupVars>>

ExpansionStarted == expand_idx >= 0

(* The `for event in events` loop has gone through every event. *)
ExpansionComplete == expand_idx = Len(expand_events)

(* `events` is exhausted: Ok(initiators). *)
ExpandReturn ==
    /\ pc = "expanding"
    /\ run = "stage"
    /\ ExpansionComplete
    /\ pc' = "done"
    /\ UNCHANGED <<reconVars, fetchVars, resolverVars, normVars, expandVars, run, dedupVars>>

(* The dispute events handed in: sorted and without repetition, as          *)
(* fetch_disputes_events returns them.                                      *)
ExpandInputs ==
    LET a == [block_num |-> 7, extrinsic_idx |-> 1]
        b == [block_num |-> 9, extrinsic_idx |-> 0]
    IN  {<<>>, << a >>, << b >>, << a, b >>}

ExpandInit ==
    /\ pc = "expanding"
    /\ expand_events \in ExpandInputs
    /\ expand_idx = 0 /\ extrinsic_requests = <<>>
    /\ extrinsic_response = None /\ skipped = <<>>
    /\ para_id = 0
    /\ ReconIdle
    /\ FetchIdle
    /\ ResolverIdle
    /\ NormIdle
    /\ run = "stage"
    /\ DedupIdle

ExpandStageNext == ExpandNext \/ ExpandReturn

SpecExpand == ExpandInit /\ [][ExpandStageNext]_vars

----------------------------------------------------------------------------
(* handle_disputes from stage (c) on: historical_account_keys, then the     *)
(* join against the returned map and the CSV write                          *)

BlockHashes == {"0xaa", "0xbb"}

(* The account lists a session may have on chain. *)
KeyLists == {<< "A", "B" >>, << "A", "B", "C", "D" >>}

(* The stage-(b) rows, with the block hash handle_disputes reads from them. *)
DisputeInitiated ==
    [session_index : Sessions, block_num : {100},
     validator_index : 0 .. MaxValidatorIndex, block_hash : BlockHashes]

DisputeInitiator(session_index, account_id) ==
    [session_index |-> session_index, account_id |-> account_id]

(* What `account_keys(&session, Some(block_hash)).await` may give: an       *)
(* error, Ok(None) or Ok(Some(keys)).                                       *)
LookupAnswers ==
    {[tag |-> "Err"], [tag |-> "Ok", keys |-> None]}
    \cup {[tag |-> "Ok", keys |-> Some(ks)] : ks \in KeyLists}

(* BTreeMap::insert through the vacant entry. *)
Insert(m, key, value) ==
    [k \in DOMAIN m \cup {key} |-> IF k = key THEN value ELSE m[k]]

(* ClientBuilder::new().set_url(rpc_url).build().await? *)
RpcConnect ==
    /\ pc = "connecting"
    /\ pc' \in {"resolving", "failed"}
    /\ UNCHANGED <<resolverVars, reconVars, fetchVars, normVars, expandVars, run, dedupVars>>

(* One iteration of `for (session, block_hash) in input`: an occupied       *)
(* entry is skipped; a vacant one costs an external lookup, whose keys, if  *)
(* any, are inserted, and whose error is returned.                          *)
ResolveNext ==
    /\ pc = "resolving"
    /\ input_idx < Len(initiators)
    /\ LET row == initiators[input_idx + 1]
           session == row.session_index
       IN  IF session \in DOMAIN map
              THEN /\ input_idx' = input_idx + 1
                   /\ UNCHANGED <<pc, map, lookups>>
              ELSE /\ lookups' = Append(lookups,
                          [session |-> session, block_hash |-> row.block_hash])
                   /\ \E answer \in LookupAnswers :
                         IF answer.tag = "Err"
                            THEN /\ pc' = "failed"
                                 /\ UNCHANGED <<input_idx, map>>
                            ELSE /\ input_idx' = input_idx + 1
                                 /\ map' = IF answer.keys = None THEN map
                                           ELSE Insert(map, session, answer.keys[1])
                                 /\ UNCHANGED pc
    /\ UNCHANGED <<initiators, join_idx, csv_rows, reconVars, fetchVars, normVars,
                   expandVars, run, dedupVars>>

(* account_map[&i.session_index][i.validator_index as usize]: both index    *)
(* operations panic, on a missing key and on an index out of bounds.        *)
Joinable(row) ==
    /\ row.session_index \in DOMAIN map
    /\ row.validator_index < Len(map[row.session_index])

Prefixes(s) == {SubSeq(s, 1, n) : n \in 0 .. Len(s)}

(* historical_account_keys returned Ok(map): the output file is created and *)
(* the lazily joined rows are serialized one by one. The first row that     *)
(* cannot be joined panics; the file then exists and holds what the         *)
(* writer's buffer let through of the rows before it.                       *)
JoinAndWrite ==
    /\ pc = "resolving"
    /\ input_idx = Len(initiators)
    /\ LET bad == {k \in 1 .. Len(initiators) : ~Joinable(initiators[k])}
           joined(n) == [k \in 1 .. n |->
                            DisputeInitiator(initiators[k].session_index,
                                map[initiators[k].session_index]
                                   [initiators[k].validator_index + 1])]
       IN  IF bad = {}
              THEN /\ join_idx' = Len(initiators)
                   /\ csv_rows' = Some(joined(Len(initiators)))
                   /\ pc' = "done"
              ELSE LET first == CHOOSE k \in bad : \A b \in bad : k <= b
                   IN  /\ join_idx' = first
                       /\ \E written \in Prefixes(joined(first - 1)) :
                             csv_rows' = Some(written)
                       /\ pc' = "panicked"
    /\ UNCHANGED <<initiators, input_idx, map, lookups, reconVars, fetchVars,
                   normVars, expandVars, run, dedupVars>>

(* create_dir_all or csv::Writer::from_path fails: `?` returns the error. *)
OutputError ==
    /\ pc = "resolving"
    /\ input_idx = Len(initiators)
    /\ pc' = "failed"
    /\ UNCHANGED <<resolverVars, reconVars, fetchVars, normVars, expandVars, run, dedupVars>>

(* wrt.serialize(i)? or wrt.flush()? fails: `?` returns the error; the file *)
(* exists and holds what was written of the rows joined until then.         *)
WriteError ==
    /\ pc = "resolving"
    /\ input_idx = Len(initiators)
    /\ LET bad == {k \in 1 .. Len(initiators) : ~Joinable(initiators[k])}
           last == IF bad = {} THEN Len(initiators)
                   ELSE (CHOOSE k \in bad : \A b \in bad : k <= b) - 1
           joined == [k \in 1 .. last |->
                         DisputeInitiator(initiators[k].session_index,
                             map[initiators[k].session_index]
                                [initiators[k].validator_index + 1])]
       IN  \E written \in Prefixes(joined) :
              /\ csv_rows' = Some(written)
              /\ join_idx' = Len(written)
    /\ pc' = "failed"
    /\ UNCHANGED <<initiators, input_idx, map, lookups, reconVars, fetchVars,
                   normVars, expandVars, run, dedupVars>>

ResolverInit ==
    /\ pc = "connecting"
    /\ initiators \in BoundedSeq(DisputeInitiated, MaxRows)
    /\ input_idx = 0 /\ map = <<>> /\ lookups = <<>>
    /\ join_idx = 0 /\ csv_rows = None
    /\ para_id = 0
    /\ ReconIdle
    /\ FetchIdle
    /\ NormIdle
    /\ ExpandIdle
    /\ run = "stage"
    /\ DedupIdle

ResolverNext ==
    RpcConnect \/ ResolveNext \/ JoinAndWrite \/ OutputError \/ WriteError

SpecResolver == ResolverInit /\ [][ResolverNext]_vars

----------------------------------------------------------------------------
(* handle_disputes as a whole: the three awaited calls in sequence, then    *)
(* the join and the CSV write                                               *)

(* i.block_hash: DisputeInitiated as declared in subscan.rs has no such     *)
(* field; the hash is taken to be that of the block the row was recorded    *)
(* in, a function of block_num.                                             *)
BlockHashAt(bn) == IF bn % 2 = 0 THEN "0xaa" ELSE "0xbb"

(* subscan::fetch_disputes_events(&network, up_to_block, num_events) *)
CallFetchDisputes ==
    /\ pc = "idle"
    /\ run = "command"
    /\ query_module' = "parasdisputes"
    /\ pc' = "loop"
    /\ UNCHANGED <<up_to_block, enough_events, block_num, page, events,
                   disputes_initiated, requests, pages, result>>
    /\ UNCHANGED <<reconVars, resolverVars, normVars, expandVars, run, dedupVars>>

(* The fetch returned Ok(events): `?` unwraps it and                        *)
(* subscan::fetch_dispute_initiators(&network, events) is called.           *)
CallFetchDisputeInitiators ==
    /\ pc = "done"
    /\ run = "command"
    /\ csv_rows = None
    /\ expand_events' = result[1]
    /\ pc' = "expanding"
    /\ UNCHANGED <<expand_idx, extrinsic_requests, extrinsic_response, skipped>>
    /\ UNCHANGED <<reconVars, fetchVars, resolverVars, normVars, run, dedupVars>>

(* fetch_dispute_initiators returned Ok(initiators): the (session, hash)    *)
(* input is built, `.expect("valid block_hash")` panicking on a hash that   *)
(* does not parse, and subxt::historical_account_keys is called.            *)
CallHistoricalAccountKeys ==
    /\ pc = "expanding"
    /\ run = "command"
    /\ ExpansionComplete
    /\ initiators' = [k \in 1 .. Len(initiators) |->
                         [session_index |-> initiators[k].session_index,
                          block_num |-> initiators[k].block_num,
                          validator_index |-> initiators[k].validator_index,
                          block_hash |-> BlockHashAt(initiators[k].block_num)]]
    /\ pc' \in {"connecting", "panicked"}
    /\ UNCHANGED <<input_idx, map, lookups, join_idx, csv_rows>>
    /\ UNCHANGED <<reconVars, fetchVars, normVars, expandVars, run, dedupVars>>

DisputesInit ==
    /\ pc = "idle"
    /\ run = "command"
    /\ up_to_block \in 0 .. MaxBlock
    /\ enough_events \in 0 .. MaxEnough
    /\ block_num = 0 /\ page = 0
    /\ events = <<>> /\ disputes_initiated = <<>> /\ requests = <<>>
    /\ query_module = "" /\ pages = <<>> /\ result = None
    /\ para_id = 0
    /\ ReconIdle
    /\ ResolverIdle
    /\ NormIdle
    /\ ExpandIdle
    /\ DedupIdle

DisputesNext ==
    \/ CallFetchDisputes
    \/ DisputesFetchRequest
    \/ DisputesFetchResponse
    \/ DisputesFetchReturn
    \/ FetchTransportError
    \/ FetchSleep
    \/ CallFetchDisputeInitiators
    \/ ExpandNext
    \/ CallHistoricalAccountKeys
    \/ RpcConnect
    \/ ResolveNext
    \/ JoinAndWrite
    \/ OutputError
    \/ WriteError

SpecDisputes == DisputesInit /\ [][DisputesNext]_vars

----------------------------------------------------------------------------
(* Properties of the reconstruction loop *)

Max0(d) == IF d > 0 THEN d ELSE 0

MaxOf(S) == CHOOSE m \in S : \A n \in S : n <= m

LastOf(s) == s[Len(s)]

(* The events of the target para among those taken so far. *)
Relevant == SelectSeq(consumed, LAMBDA e : e.para_id = para_id)

(* The positions of Relevant holding an event of the given kind. *)
OfKind(F, kind) == {j \in 1 .. Len(F) : F[j].included = kind}

(* The positions whose event has an earlier event of the opposite kind. *)
Paired(F, kind) ==
    {i \in OfKind(F, kind) : \E j \in OfKind(F, ~kind) : j < i}

(* The latency series the design prescribes for the given kind, written    *)
(* position by position from the history of events.                        *)
ExpectedPoints(F, kind) ==
    [k \in 1 .. Cardinality(Paired(F, kind)) |->
        LET i == CHOOSE i \in Paired(F, kind) :
                     Cardinality({j \in Paired(F, kind) : j <= i}) = k
            p == MaxOf({j \in OfKind(F, ~kind) : j < i})
        IN  [block_num |-> F[i].block_num,
             blocks |-> Max0(F[i].block_num - F[p].block_num)]]

TookEvent(included) ==
    /\ consumed' # consumed
    /\ LastOf(consumed').para_id = para_id
    /\ LastOf(consumed').included = included

(* C4: an included event of the target para emits an inclusion-latency     *)
(* point {block_num, block_num saturating-minus lastBackedBlock} if and    *)
(* only if a backed event came earlier (lastBackedBlock being the block of *)
(* the most recent one); afterwards lastIncludedBlock is the event's block,*)
(* lastBackedBlock is unchanged and no backing-latency point is emitted.   *)
C4_IncludedBranch ==
    [][TookEvent(TRUE) =>
        LET e == LastOf(consumed')
            B == OfKind(Relevant, FALSE)
        IN  /\ B # {} =>
                 inclusion_times' = Append(inclusion_times,
                     [block_num |-> e.block_num,
                      blocks |-> Max0(e.block_num - Relevant[MaxOf(B)].block_num)])
            /\ B = {} => inclusion_times' = inclusion_times
            /\ last_included' = Some(e.block_num)
            /\ last_backed' = last_backed
            /\ backing_times' = backing_times]_vars

(* An included event with no earlier backed event was taken without a      *)
(* point, and a later included event emitted one.                          *)
C4_Witness ==
    /\ Len(Relevant) >= 3
    /\ Relevant[1].included
    /\ Len(inclusion_times) = 1
    /\ last_included = Some(LastOf(Relevant).block_num)
    /\ LastOf(Relevant).included

ExampleInput ==
    << [block_num |-> 10, para_id |-> 1, included |-> FALSE],
       [block_num |-> 12, para_id |-> 1, included |-> TRUE],
       [block_num |-> 15, para_id |-> 1, included |-> FALSE],
       [block_num |-> 20, para_id |-> 1, included |-> TRUE] >>

(* C5: a backed event of the target para emits a backing-latency point     *)
(* {block_num, block_num saturating-minus lastIncludedBlock} if and only   *)
(* if an included event came earlier; afterwards lastBackedBlock is the    *)
(* event's block and lastIncludedBlock is unchanged. The input             *)
(* [(10,1,false),(12,1,true),(15,1,false),(20,1,true)] yields inclusion    *)
(* latencies [(12,2),(20,5)] and backing latencies [(15,3)].               *)
C5_BackedBranch ==
    /\ [][TookEvent(FALSE) =>
            LET e == LastOf(consumed')
                I == OfKind(Relevant, TRUE)
            IN  /\ I # {} =>
                     backing_times' = Append(backing_times,
                         [block_num |-> e.block_num,
                          blocks |-> Max0(e.block_num - Relevant[MaxOf(I)].block_num)])
                /\ I = {} => backing_times' = backing_times
                /\ last_backed' = Some(e.block_num)
                /\ last_included' = last_included
                /\ inclusion_times' = inclusion_times]_vars
    /\ []((consumed = ExampleInput /\ para_id = 1) =>
            /\ inclusion_times = << [block_num |-> 12, blocks |-> 2],
                                    [block_num |-> 20, blocks |-> 5] >>
            /\ backing_times = << [block_num |-> 15, blocks |-> 3] >>)

(* The example input has been processed. *)
C5_Witness ==
    /\ consumed = ExampleInput
    /\ para_id = 1
    /\ backing_times = << [block_num |-> 15, blocks |-> 3] >>
    /\ last_backed = Some(15)

(* C6: sorted or not, every emitted point has blocks in 0..2^32-1 equal to *)
(* max(0, current block - previous paired block).                          *)
C6_LatencyNeverWraps ==
    /\ inclusion_times = ExpectedPoints(Relevant, TRUE)
    /\ backing_times = ExpectedPoints(Relevant, FALSE)
    /\ \A k \in 1 .. Len(inclusion_times) : inclusion_times[k].blocks \in U32
    /\ \A k \in 1 .. Len(backing_times) : backing_times[k].blocks \in U32

(* An included event below the previous backed block gave a zero sample. *)
C6_Witness ==
    /\ Len(Relevant) = 2
    /\ ~Relevant[1].included
    /\ Relevant[2].included
    /\ Relevant[2].block_num < Relevant[1].block_num
    /\ inclusion_times = << [block_num |-> Relevant[2].block_num, blocks |-> 0] >>

IsSortedAscending(s) ==
    \A i \in 1 .. Len(s) - 1 : ~InclusionEventLess(s[i + 1], s[i])

NonDecreasingBlocks(points) ==
    \A i \in 1 .. Len(points) - 1 :
        points[i].block_num <= points[i + 1].block_num

(* C7: when the input is sorted ascending by (block_num, para_id,          *)
(* included), the block_num values of each emitted series are              *)
(* non-decreasing.                                                         *)
C7_OutputOrdered ==
    IsSortedAscending(consumed) =>
        /\ NonDecreasingBlocks(inclusion_times)
        /\ NonDecreasingBlocks(backing_times)

(* A sorted input that produced several points in both series. *)
C7_Witness ==
    /\ IsSortedAscending(consumed)
    /\ Len(inclusion_times) >= 2
    /\ Len(backing_times) >= 1
    /\ inclusion_times[1].block_num < inclusion_times[2].block_num

----------------------------------------------------------------------------
(* Properties of the fetch loops *)

(* The number of events the pages before page k added. *)
CountBefore(k) ==
    LET count[n \in 0 .. Len(pages)] ==
            IF n = 0 THEN 0 ELSE count[n - 1] + Len(pages[n])
    IN  count[k - 1]

(* C8: fetch_inclusion_events issues a further page request if and only if *)
(* the number of accumulated events (normalized, of the target para,       *)
(* counted before deduplication) is below minCount; once the count is      *)
(* >= minCount no further request is issued and the fetch returns.         *)
C8_RequestIffBelowMinCount ==
    /\ [](Inclusion =>
            /\ \A k \in 1 .. Len(events) : events[k].para_id = para_id
            /\ pc # "panicked" => Len(events) = CountBefore(Len(pages) + 1)
            /\ pc = "done" => Len(events) >= enough_events)
    /\ [][Inclusion =>
            /\ requests' # requests =>
                   /\ pc = "loop"
                   /\ Len(events) < enough_events
                   /\ requests' = Append(requests, InclusionRequest)
            /\ (pc = "loop" /\ pc' # pc) =>
                   IF Len(events) < enough_events
                      THEN Len(requests') = Len(requests) + 1 /\ result' = None
                      ELSE requests' = requests /\ pc' = "done" /\ result' # None]_vars

(* The fetch returned after several requests on a count that only the      *)
(* events before deduplication reach.                                      *)
C8_Witness ==
    /\ Inclusion
    /\ pc = "done"
    /\ Len(requests) >= 2
    /\ Len(events) >= enough_events
    /\ Len(result[1]) < enough_events

(* C9: fetch_disputes_events stops at whichever comes first: the           *)
(* accumulated count reaching minCount, or the first page with zero events *)
(* (a null events field counts as zero). After an empty page no further    *)
(* page is requested, and the events of every earlier page are kept in the *)
(* result.                                                                 *)
C9_StopsAtMinCountOrEmptyPage ==
    Disputes =>
        /\ pc = "done" =>
               \/ Len(disputes_initiated) >= enough_events
               \/ pages # <<>> /\ LastOf(pages) = <<>>
        /\ \A k \in 1 .. Len(pages) - 1 : pages[k] # <<>>
        /\ (pages # <<>> /\ LastOf(pages) = <<>>) =>
               pc = "done" /\ Len(requests) = Len(pages)
        /\ \A k \in 1 .. Len(requests) :
               k <= Len(pages) + 1 /\ CountBefore(k) < enough_events
        /\ pc = "done" =>
               \A k \in 1 .. Len(pages) : Range(pages[k]) \subseteq Range(result[1])

(* The fetch ended on an empty second page, below minCount, and returned   *)
(* the first page's events.                                                *)
C9_Witness ==
    /\ Disputes
    /\ pc = "done"
    /\ Len(pages) = 2
    /\ pages[2] = <<>>
    /\ Len(disputes_initiated) < enough_events
    /\ Len(requests) = 2
    /\ result[1] = pages[1]

(* C10: for every minCount = N, in both fetches, if the first page gives N *)
(* valid events, exactly one page request is issued in that fetch.         *)
C10_OneRequestWhenFirstPageSuffices ==
    (pages # <<>> /\ Len(pages[1]) = enough_events) => Len(requests) = 1

(* An inclusion fetch returned after a first page of minCount events. *)
C10_Witness ==
    /\ Inclusion
    /\ pc = "done"
    /\ enough_events = MaxEnough
    /\ Len(pages[1]) = enough_events
    /\ Len(requests) = 1

----------------------------------------------------------------------------
(* Properties of the dispute resolver *)

LookupsFor(s) == {k \in 1 .. Len(lookups) : lookups[k].session = s}

(* C1: in one run of historical_account_keys the external session-key      *)
(* lookup is invoked at most once for every session, whatever the lookup   *)
(* returns (a key list or no result; a lookup error ends the run).        *)
C1_LookupAtMostOncePerSession ==
    pc # "failed" => \A s \in Sessions : Cardinality(LookupsFor(s)) <= 1

SessionResolved(row) == row.session_index \in DOMAIN map

OutOfRange(row) ==
    /\ SessionResolved(row)
    /\ row.validator_index >= Len(map[row.session_index])

Rows == 1 .. Len(initiators)

(* The rows the design lets through the join: session cached and validator *)
(* index inside the cached list; each gives the account at that position.  *)
ExpectedJoin ==
    LET kept == AtPositions(initiators,
                    {k \in Rows : SessionResolved(initiators[k])
                                  /\ ~OutOfRange(initiators[k])})
    IN  [k \in 1 .. Len(kept) |->
            [session_index |-> kept[k].session_index,
             account_id |-> map[kept[k].session_index][kept[k].validator_index + 1]]]

JoinEnded == pc \in {"done", "panicked"}

(* C2: in the final join a row whose validator_index is at or beyond the   *)
(* length of its session's cached list is dropped: the run does not crash, *)
(* nothing is emitted for it, and all other rows are joined and written.   *)
C2_OutOfRangeRowDropped ==
    (/\ JoinEnded
     /\ \E k \in Rows : OutOfRange(initiators[k])
     /\ \A k \in Rows : SessionResolved(initiators[k]))
    => (pc = "done" /\ csv_rows = Some(ExpectedJoin))

(* C3: when the lookup returns no result for a session the run does not    *)
(* crash: the session stays absent from the cache, its rows yield no       *)
(* DisputeInitiator, and the rows of the other sessions are resolved and   *)
(* output.                                                                 *)
C3_UnresolvedSessionRowsDropped ==
    (/\ JoinEnded
     /\ \E k \in Rows : ~SessionResolved(initiators[k])
     /\ \A k \in Rows : ~OutOfRange(initiators[k]))
    => (pc = "done" /\ csv_rows = Some(ExpectedJoin))

(* C17: every row whose session is cached and whose validator index is     *)
(* inside the cached list gives exactly one DisputeInitiator, the account  *)
(* at that zero-based position, and the output keeps the order of the rows.*)
C17_JoinableRowsJoinedInOrder ==
    JoinEnded => (csv_rows # None /\ csv_rows[1] = ExpectedJoin)

(* C18: a run that does not reach Done persists nothing: the output file is *)
(* neither created nor partly written.                                      *)
C18_NoOutputUnlessDone == pc # "done" => csv_rows = None

----------------------------------------------------------------------------
(* Properties of the two fetch loops: delay and failure *)

(* C11: in both fetch loops every answered page request is followed by the *)
(* 150ms delay before the loop goes on or ends, whatever the page held and  *)
(* whether or not it is the last page: a step that records a page leads to  *)
(* the sleep (a crash while handling the page aside).                       *)
C11_DelayAfterEveryPage ==
    [][(pages' # pages) => pc' \in {"sleeping", "panicked"}]_vars

(* C12: a page request that fails in transport or deserialization ends the  *)
(* fetch with an error: nothing is returned, whatever earlier pages gave,   *)
(* the failed request is not sent again and no step follows the failure.    *)
C12_FailedRequestEndsFetch ==
    /\ [](pc = "failed" =>
            /\ result = None
            /\ Len(requests) = Len(pages) + 1
            /\ \A i, j \in 1 .. Len(requests) :
                   requests[i] = requests[j] => i = j)
    /\ [][/\ pc # "failed"
          /\ (pc = "awaiting" /\ pages' = pages /\ pc' # "panicked") =>
                 (pc' = "failed" /\ requests' = requests /\ result' = None)]_vars

C12_Witness ==
    /\ pc = "failed"
    /\ Len(pages) >= 1
    /\ events # <<>> \/ disputes_initiated # <<>>

----------------------------------------------------------------------------
(* Properties of the normalization *)

TimedOutAt == {k \in 1 .. Len(raw_events) :
                  raw_events[k].event_id = "CandidateTimedOut"}

(* C13: a raw CandidateTimedOut event never gives an InclusionEvent: for    *)
(* every params text normalization yields Discard for that record, and the  *)
(* page's new events hold nothing derived from it.                          *)
C13_TimedOutIsDiscarded ==
    pc \in {"collected", "panicked"} =>
        \A k \in TimedOutAt :
           /\ TryFromEvent(raw_events[k]).tag = "Err"
           /\ normalized # None
           /\ Len(normalized[1]) <= Len(raw_events) - Cardinality(TimedOutAt)

(* The para id cannot be read: no marker, or the (up to) 4 characters after *)
(* it are not a decimal number, the text ending early included.             *)
Unreadable(event) ==
    LET found == Find(event.params, Marker)
        idx == found[1] + Len(Marker)
        last == IF idx + 4 <= Len(event.params) THEN idx + 4 ELSE Len(event.params)
    IN  \/ found = None
        \/ idx + 4 > Len(event.params)
        \/ FromStrU32(SubSeq(event.params, idx + 1, last)) = None

(* What the page gives when every unreadable record is dropped alone. *)
ReadableKept ==
    LET readable == SelectSeq(raw_events, LAMBDA e : ~Unreadable(e))
        tried == [k \in 1 .. Len(readable) |-> TryFromEvent(readable[k])]
        ok == SelectSeq(tried, LAMBDA r : r.tag = "Ok")
    IN  SelectSeq([k \in 1 .. Len(ok) |-> ok[k].event],
                  LAMBDA e : e.para_id = para_id)

(* C14: a record whose para id cannot be read is discarded alone: the page  *)
(* is still normalized, and the other records are kept.                     *)
C14_UnreadableRecordDiscardedAlone ==
    (pc \in {"collected", "panicked"}
        /\ \E k \in 1 .. Len(raw_events) : Unreadable(raw_events[k])) =>
        /\ pc = "collected"
        /\ normalized = Some(ReadableKept)

----------------------------------------------------------------------------
(* Properties of fetch_dispute_initiators *)

(* The step sends a request and deserializes a response. *)
Answered ==
    /\ extrinsic_requests' # extrinsic_requests
    /\ extrinsic_response' # None

(* C15: a null data for one extrinsic is not fatal: the event gives no row, *)
(* the rows collected so far stay, the loop goes on with the next event,    *)
(* and a run that returns has sent one request per event of its input, in   *)
(* order.                                                                   *)
C15_NullResponseSkipped ==
    /\ [][(Answered /\ extrinsic_response'[1].data = None) =>
             /\ pc' = "expanding"
             /\ initiators' = initiators
             /\ expand_idx' = expand_idx + 1]_vars
    /\ [](pc = "done" =>
             extrinsic_requests =
                 [k \in 1 .. Len(expand_events) |-> ExtrinsicRequest(expand_events[k])])

C15_Witness ==
    /\ pc = "done"
    /\ Len(expand_events) = 2
    /\ skipped = << ExtrinsicRequest(expand_events[1]) >>
    /\ initiators # <<>>

(* The rows a non-null answer stands for: those of the sessions of its      *)
(* first params entry, none when params is empty.                           *)
ExpectedRows(bn, params) ==
    IF params = <<>> THEN <<>> ELSE InitiatorsOf(bn, params[1].value.disputes)

(* C16: every non-null answer, whatever the length of its params list, adds *)
(* exactly one row per statement whose kind holds Invalid, in the order of  *)
(* sessions and statements, and the loop goes on.                           *)
C16_OneRowPerInvalidStatement ==
    [][(Answered /\ extrinsic_response'[1].data # None) =>
          /\ pc' = "expanding"
          /\ expand_idx' = expand_idx + 1
          /\ initiators' = initiators \o
                 ExpectedRows(expand_events[expand_idx + 1].block_num,
                             extrinsic_response'[1].data[1].params)]_vars

----------------------------------------------------------------------------
(* Properties of the fetch results *)

(* C20: on success the result of either fetch is strictly ascending in its  *)
(* derived order, (block_num, para_id, included) for inclusion events and   *)
(* (block_num, extrinsic_idx) for dispute events, whatever order and        *)
(* multiplicity the pages came in: no two elements are equal.               *)
C20_ResultStrictlyAscending ==
    pc = "done" =>
        \A i, j \in 1 .. Len(result[1]) :
           i < j => /\ Inclusion => InclusionEventLess(result[1][i], result[1][j])
                    /\ Disputes => DisputeEventLess(result[1][i], result[1][j])
                    /\ result[1][i] # result[1][j]

C20_Witness ==
    /\ pc = "done"
    /\ Disputes
    /\ Len(result[1]) >= 2
    /\ Len(disputes_initiated) > Len(result[1])
    /\ disputes_initiated[1] # result[1][1]

----------------------------------------------------------------------------
(* Properties of handle_disputes as a whole *)

Aborted == pc \in {"failed", "panicked"}

(* The stage of the run: 0 Idle, 1 FetchingDisputeEvents (until its result  *)
(* is handed over), 2 ExpandingExtrinsics, 3 ResolvingIdentities (to the    *)
(* end of the join and write), 4 Done.                                      *)
StageRank ==
    CASE pc = "idle" -> 0
      [] pc \in {"loop", "awaiting", "sleeping"} -> 1
      [] pc = "done" /\ csv_rows = None -> 1
      [] pc = "expanding" -> 2
      [] pc \in {"connecting", "resolving"} -> 3
      [] pc = "done" /\ csv_rows # None -> 4
      [] OTHER -> 5

(* C19: a resolver run goes Idle, FetchingDisputeEvents,                    *)
(* ExpandingExtrinsics, ResolvingIdentities, Done in that order: a step     *)
(* stays in its stage, enters the next one or aborts the run, and nothing   *)
(* follows an abort; page requests are sent only while fetching, extrinsic  *)
(* requests only while expanding and after the fetch has returned, session  *)
(* lookups only while resolving and after every event has been expanded.    *)
C19_StagesInOrder ==
    /\ [][/\ ~Aborted
          /\ \/ Aborted'
             \/ StageRank' = StageRank
             \/ StageRank' = StageRank + 1
          /\ requests' # requests => StageRank = 1
          /\ extrinsic_requests' # extrinsic_requests => StageRank = 2
          /\ lookups' # lookups => StageRank = 3]_vars
    /\ [](extrinsic_requests # <<>> =>
             (result # None /\ expand_events = result[1]))
    /\ [](lookups # <<>> =>
             (result # None /\ Len(extrinsic_requests) = Len(result[1])))

C19_Witness ==
    /\ StageRank = 4
    /\ Len(requests) >= 2
    /\ Len(extrinsic_requests) >= 2
    /\ Len(lookups) >= 2

----------------------------------------------------------------------------
(* Properties of the sort-then-dedup step *)

(* Sorted and without repetition: every element strictly below the next. *)
SortedDeduped(s) ==
    \A i \in 1 .. Len(s) - 1 :
        IF Inclusion THEN InclusionEventLess(s[i], s[i + 1])
                     ELSE DisputeEventLess(s[i], s[i + 1])

(* C21: the sort-then-dedup step applied to a sequence that is already      *)
(* sorted and deduplicated, the step's own output included, returns it      *)
(* unchanged: same elements, same order, same length.                       *)
C21_SortDedupIdempotent ==
    /\ [][(passes' # passes /\ (SortedDeduped(vec) \/ passes >= 1)) =>
             vec' = vec]_vars
    /\ [](passes >= 1 => SortedDeduped(vec))

C21_Witness ==
    /\ passes = 2
    /\ Len(vec) >= 2

----------------------------------------------------------------------------
(* Properties of the fetch loops: cursors and termination *)

(* C22: in the inclusion fetch the k-th request pins block                  *)
(* upToBlock - (k - 1) and the block cursor never goes below 0 nor wraps    *)
(* round: it stays at or below upToBlock, and the fetch does not crash on   *)
(* moving it, so that a fetch that ran out of blocks ends.                  *)
C22_BlockCursorInRange ==
    Inclusion =>
        /\ block_num <= up_to_block
        /\ \A k \in 1 .. Len(requests) :
               requests[k].block_num = Some(up_to_block - (k - 1))
        /\ ~(pc = "panicked" /\ Len(pages) = Len(requests))

(* C23: fetch_disputes_events ends, with a result or with the error of a    *)
(* failed request, after at most minCount page requests (none when          *)
(* minCount = 0): request k asks for page k - 1 of the one block range      *)
(* [upToBlock saturating-minus 400000, upToBlock], and every answered       *)
(* request either ends the loop or raises the accumulated count.            *)
C23_DisputeFetchTerminates ==
    /\ [](/\ Len(requests) <= enough_events
          /\ \A k \in 1 .. Len(requests) :
                 requests[k] =
                     [module |-> "parasdisputes", page |-> k - 1,
                      call |-> Some("disputeinitiated"), block_num |-> None,
                      block_range |->
                          Some(<<Max0(up_to_block - DisputeWindow), up_to_block>>)])
    /\ [][pages' # pages =>
             \/ pc' = "done"
             \/ Len(disputes_initiated') >= Len(disputes_initiated) + 1]_vars
    /\ <>(pc \in {"done", "failed"})

(* The fetch returned after as many requests as minCount allows. *)
C23_Witness ==
    /\ pc = "done"
    /\ enough_events = MaxEnough
    /\ Len(requests) = enough_events
    /\ Len(disputes_initiated) = enough_events

----------------------------------------------------------------------------
(* Properties of the reconstruction loop on sorted input *)

SinglePara(s) == \A i, j \in 1 .. Len(s) : s[i].para_id = s[j].para_id

(* The series of the given kind with the plain integer difference between  *)
(* each paired event's block and the block of the most recent earlier      *)
(* event of the opposite kind.                                             *)
ExactPoints(F, kind) ==
    [k \in 1 .. Cardinality(Paired(F, kind)) |->
        LET i == CHOOSE i \in Paired(F, kind) :
                     Cardinality({j \in Paired(F, kind) : j <= i}) = k
            p == MaxOf({j \in OfKind(F, ~kind) : j < i})
        IN  [block_num |-> F[i].block_num,
             blocks |-> F[i].block_num - F[p].block_num]]

(* C24: when the input is sorted ascending by (block_num, para_id,         *)
(* included) and holds a single para_id, the subtraction never saturates:  *)
(* the subtrahend is never above the minuend, and every emitted point's    *)
(* blocks is the exact difference between its block_num and the block_num  *)
(* of the most recent earlier event of the opposite kind.                  *)
C24_NeverSaturates ==
    (IsSortedAscending(consumed) /\ SinglePara(consumed)) =>
        /\ inclusion_times = ExactPoints(Relevant, TRUE)
        /\ backing_times = ExactPoints(Relevant, FALSE)
        /\ \A k \in 1 .. Len(inclusion_times) :
              /\ inclusion_times[k].blocks >= 0
              /\ inclusion_times[k].blocks <= inclusion_times[k].block_num
        /\ \A k \in 1 .. Len(backing_times) :
              /\ backing_times[k].blocks >= 0
              /\ backing_times[k].blocks <= backing_times[k].block_num

(* A sorted input of the target para alone gave a positive latency in both *)
(* series.                                                                 *)
C24_Witness ==
    /\ IsSortedAscending(consumed)
    /\ SinglePara(consumed)
    /\ Len(consumed) >= 3
    /\ \E k \in 1 .. Len(inclusion_times) : inclusion_times[k].blocks > 0
    /\ \E k \in 1 .. Len(backing_times) : backing_times[k].blocks > 0

(* The index, in the series of its kind, of the point the event at         *)
(* position i emitted.                                                     *)
PointIndex(F, kind, i) == Cardinality({j \in Paired(F, kind) : j <= i})

(* C25: on sorted input, a backed and an included event of the target para *)
(* with the same block_num are processed backed first; the included event  *)
(* emits an inclusion-latency point with blocks = 0 for that block, and    *)
(* the backed event's point, emitted when an included event came before    *)
(* it, measures against that earlier included block, which lies strictly   *)
(* below.                                                                  *)
C25_SameBlockBackedFirst ==
    IsSortedAscending(consumed) =>
        LET F == Relevant
        IN  \A i \in OfKind(F, FALSE), j \in OfKind(F, TRUE) :
                F[i].block_num = F[j].block_num =>
                    /\ i < j
                    /\ j \in Paired(F, TRUE)
                    /\ inclusion_times[PointIndex(F, TRUE, j)] =
                           [block_num |-> F[j].block_num, blocks |-> 0]
                    /\ i \in Paired(F, FALSE) =>
                           LET p == MaxOf({q \in OfKind(F, TRUE) : q < i})
                           IN  /\ F[p].block_num < F[i].block_num
                               /\ backing_times[PointIndex(F, FALSE, i)] =
                                      [block_num |-> F[i].block_num,
                                       blocks |-> F[i].block_num - F[p].block_num]

(* Included at 10, then backed and included at 12: the inclusion latency   *)
(* at 12 is 0 and the backing latency at 12 is 2.                          *)
C25_Witness ==
    /\ IsSortedAscending(consumed)
    /\ Len(Relevant) = 3
    /\ Relevant[1].included /\ ~Relevant[2].included /\ Relevant[3].included
    /\ Relevant[2].block_num = Relevant[3].block_num
    /\ Relevant[1].block_num < Relevant[2].block_num
    /\ LastOf(inclusion_times) = [block_num |-> Relevant[3].block_num, blocks |-> 0]
    /\ LastOf(backing_times).blocks =
           Relevant[2].block_num - Relevant[1].block_num

============================================================================
